---- MODULE Spec2Model ----
(***************************************************************************)
(* Naming-string generation of the ad-set / ad-level autonamer             *)
(* (src/components/CopyRow.tsx, lines 65-276) and the FormData record it   *)
(* consumes (src/types.ts).                                                *)
(*                                                                         *)
(* A JavaScript string is modelled as a sequence of UTF-16 code units      *)
(* (natural numbers).  A value that is not a string (undefined, null, a    *)
(* number) is modelled as a one-element sequence holding a negative tag.   *)
(***************************************************************************)
EXTENDS Integers, Sequences, FiniteSets, TLC

(***************************************************************************)
(* Characters named by the source.                                         *)
(***************************************************************************)
SPACE == 32
COMMA == 44
DASH == 45
UNDERSCORE == 95

\* CLEAN_RE: U+00A0 (NBSP), U+200B, U+200D, U+2060 (zero-width variants).
CLEAN_RE == {160, 8203, 8205, 8288}

\* The code units String.prototype.trim strips and the class \s matches
\* (ECMAScript WhiteSpace and LineTerminator).
WhiteSpace ==
  {9, 10, 11, 12, 13, 32, 160, 5760, 8232, 8233, 8239, 8287, 12288, 65279}
    \cup (8192 .. 8202)

\* Values that are not strings: undefined, null, the number 0, the number 1.
Undefined == <<-1>>
Null == <<-2>>
Zero == <<-3>>
One == <<-4>>

\* typeof s === 'string'
IsString(s) == \A i \in DOMAIN s : s[i] >= 0

\* JavaScript truthiness of a field value: undefined, null, 0 and "" are
\* falsy.
Truthy(v) == v # <<>> /\ v # Undefined /\ v # Null /\ v # Zero

(***************************************************************************)
(* String primitives.                                                      *)
(***************************************************************************)
\* s.replace(/[set]/g, '')
RemoveChars(s, set) == SelectSeq(s, LAMBDA c : c \notin set)

RECURSIVE TrimStart(_)
TrimStart(s) ==
  IF s = <<>> THEN s
  ELSE IF Head(s) \in WhiteSpace THEN TrimStart(Tail(s)) ELSE s

RECURSIVE TrimEnd(_)
TrimEnd(s) ==
  IF s = <<>> THEN s
  ELSE IF s[Len(s)] \in WhiteSpace THEN TrimEnd(SubSeq(s, 1, Len(s) - 1)) ELSE s

\* String.prototype.trim
Trim(s) == TrimEnd(TrimStart(s))

\* parts.join(delimiter)
RECURSIVE Join(_, _)
Join(parts, delimiter) ==
  IF parts = <<>> THEN <<>>
  ELSE IF Len(parts) = 1 THEN parts[1]
  ELSE parts[1] \o delimiter \o Join(Tail(parts), delimiter)

(***************************************************************************)
(* Excel-parity helpers, CopyRow.tsx:74-102.                               *)
(***************************************************************************)
\* Variant that trims before it removes the four characters.
cleanTrimFirst(s) == IF ~IsString(s) THEN <<>> ELSE RemoveChars(Trim(s), CLEAN_RE)

\* Variant without the g flag: only the first of the four characters goes.
cleanFirstOnly(s) ==
  IF ~IsString(s) THEN <<>>
  ELSE LET hits == {i \in DOMAIN s : s[i] \in CLEAN_RE}
       IN  IF hits = {} THEN Trim(s)
           ELSE LET i == CHOOSE h \in hits : \A k \in hits : h <= k
                IN  Trim(SubSeq(s, 1, i - 1) \o SubSeq(s, i + 1, Len(s)))

\* Variant without the typeof guard.
cleanUnguarded(s) == Trim(RemoveChars(s, CLEAN_RE))

clean(s) == IF ~IsString(s) THEN <<>> ELSE Trim(RemoveChars(s, CLEAN_RE))

\* Variant that keeps the empty values.
textJoinNoFilter(delimiter, parts) ==
  Join([i \in DOMAIN parts |-> clean(parts[i])], delimiter)

textJoin(delimiter, parts) ==
  LET mapped == [i \in DOMAIN parts |-> clean(parts[i])]
      filtered == SelectSeq(mapped, LAMBDA p : p # <<>>)
  IN  Join(filtered, delimiter)

\* Variant without the g flag: only the first comma + whitespace is replaced.
substituteCommaSpaceToDashOnce(s) ==
  LET hits == {i \in 1 .. Len(s) - 1 : s[i] = COMMA /\ s[i + 1] \in WhiteSpace}
  IN  IF hits = {} THEN s
      ELSE LET i == CHOOSE h \in hits : \A k \in hits : h <= k
           IN  SubSeq(s, 1, i - 1) \o <<DASH>> \o SubSeq(s, i + 2, Len(s))

\* s.replace(/,\s/g, '-'): leftmost matches, left to right, non-overlapping.
RECURSIVE substituteCommaSpaceToDash(_)
substituteCommaSpaceToDash(s) ==
  IF Len(s) < 2 THEN s
  ELSE IF s[1] = COMMA /\ s[2] \in WhiteSpace
       THEN <<DASH>> \o substituteCommaSpaceToDash(SubSeq(s, 3, Len(s)))
       ELSE <<s[1]>> \o substituteCommaSpaceToDash(Tail(s))

\* Variant without the g flag: only the first space is removed.
removeNormalSpacesFirst(s) ==
  LET hits == {i \in DOMAIN s : s[i] = SPACE}
  IN  IF hits = {} THEN s
      ELSE LET i == CHOOSE h \in hits : \A k \in hits : h <= k
           IN  SubSeq(s, 1, i - 1) \o SubSeq(s, i + 1, Len(s))

removeNormalSpaces(s) == RemoveChars(s, {SPACE})

\* Variant without the g flag: only the first comma is replaced.
replaceCommasWithDashFirst(s) ==
  LET hits == {i \in DOMAIN s : s[i] = COMMA}
  IN  IF hits = {} THEN s
      ELSE LET i == CHOOSE h \in hits : \A k \in hits : h <= k
           IN  [s EXCEPT ![i] = DASH]

replaceCommasWithDash(s) == [i \in DOMAIN s |-> IF s[i] = COMMA THEN DASH ELSE s[i]]

cleanAdSetVideo(s) == removeNormalSpaces(clean(s))

cleanAdSetStatic(s) == removeNormalSpaces(replaceCommasWithDash(clean(s)))

\* A cleaner passed as an argument is named; Apply calls the one named.
Apply(cleaner, v) ==
  IF cleaner = "cleanAdSetVideo" THEN cleanAdSetVideo(v)
  ELSE IF cleaner = "cleanAdSetStatic" THEN cleanAdSetStatic(v)
  ELSE clean(v)

\* Variant that filters before it normalizes.
textJoinWithFilterRaw(delimiter, parts, cleaner) ==
  LET kept == SelectSeq(parts, LAMBDA p : p # <<>>)
  IN  Join([i \in DOMAIN kept |-> Apply(cleaner, kept[i])], delimiter)

textJoinWith(delimiter, parts, cleaner) ==
  LET mapped == [i \in DOMAIN parts |-> Apply(cleaner, parts[i])]
      filtered == SelectSeq(mapped, LAMBDA p : p # <<>>)
  IN  Join(filtered, delimiter)

(***************************************************************************)
(* Literals of the generators.                                             *)
(***************************************************************************)
NCON == <<78, 67, 79, 78>>
PrefixS == <<83, DASH>>
PrefixT == <<84, DASH>>
PrefixV == <<86, DASH>>
PrefixA == <<65, DASH>>

(***************************************************************************)
(* generateVideoOutputs, CopyRow.tsx:104-187.                              *)
(***************************************************************************)
nconStr(data) == IF data.ncon THEN NCON ELSE <<>>

\* Variant that puts a dash between the code and the variant.
projectCodeVariantDashed(data) ==
  IF Truthy(data.variant)
  THEN clean(data.projectCode) \o <<DASH>> \o clean(data.variant)
  ELSE clean(data.projectCode)

projectCodeVariant(data) ==
  IF Truthy(data.variant)
  THEN clean(data.projectCode) \o clean(data.variant)
  ELSE clean(data.projectCode)

\* Variant with title ahead of seq.
VideoAdSetPartsSwapped(data) ==
  << data.account, data.productGeo, data.trial, data.conceptId, data.assetId,
     data.focus, data.theme, data.shortConceptDesc, data.title, data.seq,
     data.intro, data.testVariable, data.testDesc, nconStr(data), data.age,
     data.ethnicity, data.ratio, data.style, data.graphic, data.productCode,
     data.projectCode >>

\* Variant that lets sound into the ad-set list.
VideoAdSetPartsWithSound(data) ==
  << data.account, data.productGeo, data.trial, data.conceptId, data.assetId,
     data.focus, data.theme, data.shortConceptDesc, data.seq, data.title,
     data.intro, data.testVariable, data.testDesc, data.sound, nconStr(data),
     data.age, data.ethnicity, data.ratio, data.style, data.graphic,
     data.productCode, data.projectCode >>

VideoAdSetParts(data) ==
  << data.account, data.productGeo, data.trial, data.conceptId, data.assetId,
     data.focus, data.theme, data.shortConceptDesc, data.seq, data.title,
     data.intro, data.testVariable, data.testDesc, nconStr(data), data.age,
     data.ethnicity, data.ratio, data.style, data.graphic, data.productCode,
     data.projectCode >>

\* Variant that writes the tag whether or not the value is empty.
TaggedAlways(prefix, x) == prefix \o clean(x)

\* clean(x) ? `<tag>-${clean(x)}` : ''
Tagged(prefix, x) == IF clean(x) # <<>> THEN prefix \o clean(x) ELSE <<>>

VideoAdLevelParts(data) ==
  LET sPart == Tagged(PrefixS, data.seqDesc)
      tPart == textJoin(<<DASH>>, << Tagged(PrefixT, data.hookTheme), data.hookDesc >>)
      vPart == textJoin(<<DASH>>, << Tagged(PrefixV, data.visualTheme), data.visualObject >>)
      aPart == Tagged(PrefixA, data.sound)
  IN  << data.account, data.productGeo, data.trial, data.conceptId, data.assetId,
         data.focus, data.theme, data.shortConceptDesc, data.seq, data.title,
         data.intro, sPart, tPart, vPart, aPart, nconStr(data), data.age,
         data.ethnicity, data.ratio, data.style, data.graphic, data.productCode,
         projectCodeVariant(data), data.adTextCode >>

generateVideoOutputs(data) ==
  [ adSet   |-> textJoinWith(<<UNDERSCORE>>, VideoAdSetParts(data), "cleanAdSetVideo"),
    adLevel |-> substituteCommaSpaceToDash(
                  textJoin(<<UNDERSCORE>>, VideoAdLevelParts(data))) ]

(***************************************************************************)
(* generateStaticOutputs, CopyRow.tsx:189-276.                             *)
(***************************************************************************)
\* Variant whose slot N holds seq, as the column does in the video list.
StaticAdSetPartsSeqInSlotN(data) ==
  << data.account, data.productGeo, data.trial, data.conceptId, data.assetId,
     data.focus, data.theme, data.shortConceptDesc, data.carouselCode,
     data.title, data.intro, data.testVariable, data.testDesc,
     data.seq, <<>>, <<>>, <<>>,
     nconStr(data), data.age, data.ethnicity, data.ratio, data.style,
     data.graphic, data.productCode, data.projectCode,
     <<>> >>

StaticAdSetParts(data) ==
  << data.account, data.productGeo, data.trial, data.conceptId, data.assetId,
     data.focus, data.theme, data.shortConceptDesc, data.carouselCode,
     data.title, data.intro, data.testVariable, data.testDesc,
     <<>>, <<>>, <<>>, <<>>,
     nconStr(data), data.age, data.ethnicity, data.ratio, data.style,
     data.graphic, data.productCode, data.projectCode,
     <<>> >>

\* Variant whose T-segment takes hookDesc, as the video generator's does.
StaticAdLevelPartsWithHookDesc(data) ==
  LET sPart == Tagged(PrefixS, data.carouselDesc)
      tPart == textJoin(<<DASH>>, << Tagged(PrefixT, data.hookTheme), data.hookDesc >>)
      vPart == textJoin(<<DASH>>, << Tagged(PrefixV, data.visualTheme), data.visualObject >>)
      aPart == Tagged(PrefixA, data.visualIdentifier)
  IN  << data.account, data.productGeo, data.trial, data.conceptId, data.assetId,
         data.focus, data.theme, data.shortConceptDesc, data.carouselCode,
         data.title, data.intro, sPart, tPart, vPart, aPart, nconStr(data),
         data.age, data.ethnicity, data.ratio, data.style, data.graphic,
         data.productCode, projectCodeVariant(data), data.adTextCode >>

StaticAdLevelParts(data) ==
  LET sPart == Tagged(PrefixS, data.carouselDesc)
      tPart == textJoin(<<DASH>>, << Tagged(PrefixT, data.hookTheme), data.titleDesc >>)
      vPart == textJoin(<<DASH>>, << Tagged(PrefixV, data.visualTheme), data.visualObject >>)
      aPart == Tagged(PrefixA, data.visualIdentifier)
  IN  << data.account, data.productGeo, data.trial, data.conceptId, data.assetId,
         data.focus, data.theme, data.shortConceptDesc, data.carouselCode,
         data.title, data.intro, sPart, tPart, vPart, aPart, nconStr(data),
         data.age, data.ethnicity, data.ratio, data.style, data.graphic,
         data.productCode, projectCodeVariant(data), data.adTextCode >>

generateStaticOutputs(data) ==
  [ adSet   |-> textJoinWith(<<UNDERSCORE>>, StaticAdSetParts(data), "cleanAdSetStatic"),
    adLevel |-> substituteCommaSpaceToDash(
                  textJoin(<<UNDERSCORE>>, StaticAdLevelParts(data))) ]

(***************************************************************************)
(* The FormData record, src/types.ts:5-54.                                 *)
(***************************************************************************)
StringFields ==
  { "account", "productGeo", "trial", "conceptId", "assetId", "focus", "theme",
    "shortConceptDesc", "testVariable", "testDesc", "age", "ethnicity", "ratio",
    "style", "graphic", "sound", "productCode", "projectCode", "variant",
    "adTextCode", "seq", "title", "intro", "seqDesc", "hookTheme", "hookDesc",
    "visualTheme", "visualObject", "carouselCode", "carouselDesc", "titleDesc",
    "visualIdentifier" }

\* The record with every string field empty and the ncon flag off.
EmptyData == [f \in StringFields \cup {"ncon"} |-> IF f = "ncon" THEN FALSE ELSE <<>>]

(***************************************************************************)
(* Bounded inputs.                                                         *)
(***************************************************************************)
MaxLen == 5
MaxWide == 2
MaxFilled == 2

RECURSIVE StringsOver(_, _)
StringsOver(alphabet, n) ==
  IF n = 0 THEN {<<>>}
  ELSE LET shorter == StringsOver(alphabet, n - 1)
       IN  shorter \cup
             {Append(s, c) : s \in {t \in shorter : Len(t) = n - 1}, c \in alphabet}

\* Long values over comma, space and a letter: runs such as ",, a" and ", , a".
RichValues == StringsOver({COMMA, SPACE, 97}, MaxLen)

\* Short values over tab, space, comma, underscore, a letter, the zero-width
\* space and the ideographic space U+3000.
WideValues == StringsOver({9, SPACE, COMMA, UNDERSCORE, 97, 8203, 12288}, MaxWide)

\* One field holds the value v, every other field is empty.
SingleInput(f, v) == [EmptyData EXCEPT ![f] = v]

\* The string fields in one fixed order.
FieldOrder ==
  << "account", "productGeo", "trial", "conceptId", "assetId", "focus", "theme",
     "shortConceptDesc", "testVariable", "testDesc", "age", "ethnicity", "ratio",
     "style", "graphic", "sound", "productCode", "projectCode", "variant",
     "adTextCode", "seq", "title", "intro", "seqDesc", "hookTheme", "hookDesc",
     "visualTheme", "visualObject", "carouselCode", "carouselDesc", "titleDesc",
     "visualIdentifier" >>

\* A code unit of its own for every field, by its rank in FieldOrder.
Mark(f) == 96 + (CHOOSE i \in DOMAIN FieldOrder : FieldOrder[i] = f)

\* How a filled field is written: the bare mark, or the mark inside the
\* clutter a pasted multi-select value carries.
Shapes == {"plain", "messy"}

Shaped(shape, m) ==
  IF shape = "plain" THEN <<m>>
  ELSE <<SPACE, m, COMMA, SPACE, m, SPACE, m, 8203, SPACE>>

\* The subsets of S of at most n elements.
RECURSIVE SubsetsUpTo(_, _)
SubsetsUpTo(S, n) ==
  IF n = 0 THEN {{}}
  ELSE LET smaller == SubsetsUpTo(S, n - 1)
       IN  smaller \cup
             {G \cup {x} : G \in {H \in smaller : Cardinality(H) = n - 1}, x \in S}

\* The fields of F are filled, each with its own mark; b is the flag.
ComboInput(F, b, shape) ==
  [f \in StringFields \cup {"ncon"} |->
     IF f = "ncon" THEN b ELSE IF f \in F THEN Shaped(shape, Mark(f)) ELSE <<>>]

\* The worked example of the video ad-set string: "US", "USA", "T1".
ScenarioUS ==
  [EmptyData EXCEPT !["account"] = <<85, 83>>,
                    !["productGeo"] = <<85, 83, 65>>,
                    !["trial"] = <<84, 49>>]

\* The worked example of the segments: hookTheme "Fear", hookDesc "Urgency",
\* no visualTheme, visualObject "ProductShot", no sound.
Fear == <<70, 101, 97, 114>>
Urgency == <<85, 114, 103, 101, 110, 99, 121>>
ProductShot == <<80, 114, 111, 100, 117, 99, 116, 83, 104, 111, 116>>

ScenarioFear ==
  [EmptyData EXCEPT !["hookTheme"] = Fear,
                    !["hookDesc"] = Urgency,
                    !["visualObject"] = ProductShot]

\* The worked example of the variant: projectCode "087.01-001", variant "a".
ProjectCode087 == <<48, 56, 55, 46, 48, 49, DASH, 48, 48, 49>>

ScenarioVariant ==
  [EmptyData EXCEPT !["projectCode"] = ProjectCode087, !["variant"] = <<97>>]

\* A comma inside a value, followed by a space, by another white space
\* character, or by something else.
AfterComma == {SPACE, 9, 10, 12288, COMMA, DASH, 98}

CommaValues == {<<97, COMMA, c, 98>> : c \in AfterComma}

\* The records a generator is given: one field with an arbitrary value, up
\* to MaxFilled marked fields, a project code with an arbitrary variant, or
\* a worked example.
IsInput(d) ==
  \/ \E f \in StringFields, v \in RichValues \cup WideValues \cup CommaValues :
       d = SingleInput(f, v)
  \/ \E F \in SubsetsUpTo(StringFields, MaxFilled), b \in BOOLEAN, shape \in Shapes :
       d = ComboInput(F, b, shape)
  \/ \E v \in WideValues : d = [ScenarioVariant EXCEPT !["variant"] = v]
  \/ d \in {ScenarioUS, ScenarioFear, ScenarioVariant}

\* The account and the fields that no ad-set list names are filled, each
\* with its own mark; the flag is on.
DetailData ==
  ComboInput(
    { "account", "sound", "variant", "adTextCode", "seqDesc", "hookTheme",
      "hookDesc", "visualTheme", "visualObject", "carouselDesc", "titleDesc",
      "visualIdentifier" },
    TRUE, "plain")

\* Records a second record is derived from, one edit at a time.
MaxEdits == 2

PairInputs == {EmptyData, ScenarioUS, DetailData}

EditValues == {<<>>, <<120, SPACE, 121>>}

\* Records in which fields are missing or hold something that is not a
\* string: the fields of F hold v, the others are as in base.
MaxMissing == 2

NonStrings == {Undefined, Null, Zero, One}

LooseBases == {EmptyData, DetailData, ScenarioVariant}

Loose(base, F, v) == [f \in DOMAIN base |-> IF f \in F THEN v ELSE base[f]]

\* Inputs of clean alone.
MaxText == 5

TextValues == StringsOver({SPACE, 97, 160, 8203, 8205, 8288, 12288}, MaxText)

\* Inputs of the joins: lists of blank values, one of which may be replaced.
MaxParts == 3
MaxJoin == 2

BlankValues == {<<>>, <<SPACE, 9, 12288>>}

JoinValues == StringsOver({SPACE, COMMA, 97, 8203}, MaxJoin)

RECURSIVE BlankLists(_)
BlankLists(n) ==
  IF n = 0 THEN {<<>>}
  ELSE LET shorter == BlankLists(n - 1)
       IN  shorter \cup
             {Append(l, b) : l \in {m \in shorter : Len(m) = n - 1}, b \in BlankValues}

JoinInputs ==
  LET lists == BlankLists(MaxParts) \ {<<>>}
  IN  lists \cup
        { [i \in DOMAIN l |-> IF i = k THEN v ELSE l[i]] :
            l \in lists, k \in 1 .. MaxParts, v \in JoinValues }

Delimiters == {<<UNDERSCORE>>, <<DASH>>}

(***************************************************************************)
(* State.  data is the record handed to a generator and out the pair it    *)
(* returned; alt and outAlt are a second record and its pair.  text and    *)
(* parts are the arguments of clean and of the joins, res their result.    *)
(***************************************************************************)
NoOutput == [mode |-> "none", adSet |-> <<>>, adLevel |-> <<>>]

NoResult == [op |-> "none", delimiter |-> <<>>, val |-> <<>>]

VARIABLES data, alt, out, outAlt, text, parts, res

(***************************************************************************)
(* State of one CopyRow, CopyRow.tsx:10-18.  value is the prop, copied the *)
(* state of useState(false), clipboard the texts handed to writeText so    *)
(* far, timers the number of setTimeout callbacks not yet run (all have    *)
(* the same delay, so they run in the order they were set), clicks the     *)
(* number of calls of handleCopy so far.                                   *)
(***************************************************************************)
VARIABLES value, copied, clipboard, timers, clicks

genVars == <<data, alt, out, outAlt, text, parts, res>>

rowVars == <<value, copied, clipboard, timers, clicks>>

vars == <<data, alt, out, outAlt, text, parts, res,
          value, copied, clipboard, timers, clicks>>

\* Calls of handleCopy in one behaviour.
MaxClicks == 3

\* Values of the prop: nothing yet, "US", "USA".
RowValues == {<<>>, <<85, 83>>, <<85, 83, 65>>}

\* A row as useState(false) leaves it: nothing copied, nothing scheduled.
RowMounted == copied = FALSE /\ clipboard = <<>> /\ timers = 0 /\ clicks = 0

\* Variant without the early return on an empty value.
handleCopyUnguarded ==
  /\ clicks < MaxClicks
  /\ clicks' = clicks + 1
  /\ clipboard' = Append(clipboard, value)
  /\ copied' = TRUE
  /\ timers' = timers + 1
  /\ UNCHANGED value
  /\ UNCHANGED genVars

\* if (!value) return; writeText(value); setCopied(true); setTimeout(...)
handleCopy ==
  /\ clicks < MaxClicks
  /\ clicks' = clicks + 1
  /\ IF value = <<>>
     THEN UNCHANGED <<copied, clipboard, timers>>
     ELSE /\ clipboard' = Append(clipboard, value)
          /\ copied' = TRUE
          /\ timers' = timers + 1
  /\ UNCHANGED value
  /\ UNCHANGED genVars

\* The callback of setTimeout, 2000 ms after its click: setCopied(false).
TimerExpires ==
  /\ timers > 0
  /\ timers' = timers - 1
  /\ copied' = FALSE
  /\ UNCHANGED <<value, clipboard, clicks>>
  /\ UNCHANGED genVars

\* The parent renders the row with another value.
SetValue ==
  /\ \E v \in RowValues : v # value /\ value' = v
  /\ UNCHANGED <<copied, clipboard, timers, clicks>>
  /\ UNCHANGED genVars

GenerateVideo ==
  /\ out.mode = "none"
  /\ out' = [mode |-> "video"] @@ generateVideoOutputs(data)
  /\ outAlt' = [mode |-> "video"] @@ generateVideoOutputs(alt)
  /\ UNCHANGED <<data, alt, text, parts, res>>
  /\ UNCHANGED rowVars

GenerateStatic ==
  /\ out.mode = "none"
  /\ out' = [mode |-> "static"] @@ generateStaticOutputs(data)
  /\ outAlt' = [mode |-> "static"] @@ generateStaticOutputs(alt)
  /\ UNCHANGED <<data, alt, text, parts, res>>
  /\ UNCHANGED rowVars

\* The caller changes one field of the second record before generating.
Edit ==
  /\ out.mode = "none"
  /\ \E f \in StringFields, v \in EditValues :
       /\ alt[f] # v
       /\ alt' = [alt EXCEPT ![f] = v]
       /\ Cardinality({g \in StringFields : alt'[g] # data[g]}) <= MaxEdits
  /\ UNCHANGED <<data, out, outAlt, text, parts, res>>
  /\ UNCHANGED rowVars

Clean ==
  /\ res.op = "none"
  /\ res' = [op |-> "clean", delimiter |-> <<>>, val |-> clean(text)]
  /\ UNCHANGED <<data, alt, out, outAlt, text, parts>>
  /\ UNCHANGED rowVars

TextJoin ==
  /\ res.op = "none"
  /\ \E d \in Delimiters :
       res' = [op |-> "textJoin", delimiter |-> d, val |-> textJoin(d, parts)]
  /\ UNCHANGED <<data, alt, out, outAlt, text, parts>>
  /\ UNCHANGED rowVars

TextJoinWithClean ==
  /\ res.op = "none"
  /\ \E d \in Delimiters :
       res' = [op |-> "textJoinWith:clean", delimiter |-> d,
               val |-> textJoinWith(d, parts, "clean")]
  /\ UNCHANGED <<data, alt, out, outAlt, text, parts>>
  /\ UNCHANGED rowVars

TextJoinWithVideo ==
  /\ res.op = "none"
  /\ \E d \in Delimiters :
       res' = [op |-> "textJoinWith:cleanAdSetVideo", delimiter |-> d,
               val |-> textJoinWith(d, parts, "cleanAdSetVideo")]
  /\ UNCHANGED <<data, alt, out, outAlt, text, parts>>
  /\ UNCHANGED rowVars

TextJoinWithStatic ==
  /\ res.op = "none"
  /\ \E d \in Delimiters :
       res' = [op |-> "textJoinWith:cleanAdSetStatic", delimiter |-> d,
               val |-> textJoinWith(d, parts, "cleanAdSetStatic")]
  /\ UNCHANGED <<data, alt, out, outAlt, text, parts>>
  /\ UNCHANGED rowVars

\* The generators on one record.
Init ==
  /\ IsInput(data) /\ alt = data
  /\ out = NoOutput /\ outAlt = NoOutput
  /\ text = <<>> /\ parts = <<>> /\ res = NoResult
  /\ value = <<>> /\ RowMounted

Next == GenerateVideo \/ GenerateStatic

Spec == Init /\ [][Next]_vars

\* The generators on two records that differ in a few fields.
InitPair ==
  /\ data \in PairInputs /\ alt = data
  /\ out = NoOutput /\ outAlt = NoOutput
  /\ text = <<>> /\ parts = <<>> /\ res = NoResult
  /\ value = <<>> /\ RowMounted

NextPair == Edit \/ GenerateVideo \/ GenerateStatic

SpecPair == InitPair /\ [][NextPair]_vars

\* The generators on a record with missing or non-string fields, and on
\* the record that has the empty string in their place.
InitLoose ==
  /\ \E base \in LooseBases, v \in NonStrings,
        F \in (SubsetsUpTo(StringFields, MaxMissing) \ {{}}) \cup {StringFields} :
       /\ data = Loose(base, F, v)
       /\ alt = Loose(base, F, <<>>)
  /\ out = NoOutput /\ outAlt = NoOutput
  /\ text = <<>> /\ parts = <<>> /\ res = NoResult
  /\ value = <<>> /\ RowMounted

NextLoose == GenerateVideo \/ GenerateStatic

SpecLoose == InitLoose /\ [][NextLoose]_vars

\* One CopyRow under clicks, timer expirations and changes of its value.
InitRow ==
  /\ data = EmptyData /\ alt = EmptyData
  /\ out = NoOutput /\ outAlt = NoOutput
  /\ text = <<>> /\ parts = <<>> /\ res = NoResult
  /\ value \in RowValues /\ RowMounted

NextRow == handleCopy \/ TimerExpires \/ SetValue

SpecRow == InitRow /\ [][NextRow]_vars

\* The event loop runs every callback whose delay has passed.
SpecRowFair == SpecRow /\ WF_vars(TimerExpires)

\* clean on one string.
InitClean ==
  /\ data = EmptyData /\ alt = EmptyData
  /\ out = NoOutput /\ outAlt = NoOutput
  /\ text \in TextValues /\ parts = <<>> /\ res = NoResult
  /\ value = <<>> /\ RowMounted

NextClean == Clean

SpecClean == InitClean /\ [][NextClean]_vars

\* The joins on one list.
InitJoin ==
  /\ data = EmptyData /\ alt = EmptyData
  /\ out = NoOutput /\ outAlt = NoOutput
  /\ text = <<>> /\ parts \in JoinInputs /\ res = NoResult
  /\ value = <<>> /\ RowMounted

NextJoin == TextJoin \/ TextJoinWithClean \/ TextJoinWithVideo \/ TextJoinWithStatic

SpecJoin == InitJoin /\ [][NextJoin]_vars

(***************************************************************************)
(* Vocabulary of the properties.                                           *)
(***************************************************************************)
Contains(s, c) == \E i \in DOMAIN s : s[i] = c

HasPair(s, a, b) == \E i \in 1 .. Len(s) - 1 : s[i] = a /\ s[i + 1] = b

Count(s, c) == Cardinality({i \in DOMAIN s : s[i] = c})

\* A value that contributes nothing: empty, or only whitespace and the four
\* removed characters.
Blank(v) == \A i \in DOMAIN v : v[i] \in WhiteSpace \cup CLEAN_RE

\* The ad-set lists as the specification orders them ("ncon" is the token).
VideoAdSetOrder ==
  << "account", "productGeo", "trial", "conceptId", "assetId", "focus", "theme",
     "shortConceptDesc", "seq", "title", "intro", "testVariable", "testDesc",
     "ncon", "age", "ethnicity", "ratio", "style", "graphic", "productCode",
     "projectCode" >>

StaticAdSetOrder ==
  << "account", "productGeo", "trial", "conceptId", "assetId", "focus", "theme",
     "shortConceptDesc", "carouselCode", "title", "intro", "testVariable",
     "testDesc", "ncon", "age", "ethnicity", "ratio", "style", "graphic",
     "productCode", "projectCode" >>

\* The value a named slot contributes.
Slot(d, name) == IF name = "ncon" THEN (IF d.ncon THEN NCON ELSE <<>>) ELSE d[name]

\* Skip-blank join, written as a left fold over normalized values: an empty
\* value leaves the accumulator alone, any other is appended, after a
\* delimiter unless it is the first.
RECURSIVE SkipBlankFold(_, _, _)
SkipBlankFold(values, delimiter, acc) ==
  IF values = <<>> THEN acc
  ELSE SkipBlankFold(Tail(values), delimiter,
         IF Head(values) = <<>> THEN acc
         ELSE IF acc = <<>> THEN Head(values) ELSE acc \o delimiter \o Head(values))

\* Total number of occurrences of c in the normalized slots.
RECURSIVE CountIn(_, _, _)
CountIn(d, names, c) ==
  IF names = <<>> THEN 0
  ELSE Count(clean(Slot(d, Head(names))), c) + CountIn(d, Tail(names), c)

(***************************************************************************)
(* C2: the ad-set string of either generator contains no U+0020, whatever  *)
(* spaces the fields of the record contain.                                *)
(***************************************************************************)
C2_AdSetHasNoSpace == out.mode # "none" => ~Contains(out.adSet, SPACE)

\* A static ad-set string built from a field with an inner space.
C2_Witness ==
  /\ out.mode = "static"
  /\ HasPair(clean(data.account), 97, SPACE)
  /\ out.adSet # <<>>

(***************************************************************************)
(* C3: the static ad-set string contains no comma; every comma of a        *)
(* contributing field has become a dash.                                   *)
(***************************************************************************)
C3_StaticAdSetHasNoComma ==
  out.mode = "static" =>
    /\ ~Contains(out.adSet, COMMA)
    /\ Count(out.adSet, DASH) =
         CountIn(data, StaticAdSetOrder, COMMA) + CountIn(data, StaticAdSetOrder, DASH)

\* A static ad-set string built from a field with two commas.
C3_Witness ==
  /\ out.mode = "static"
  /\ Count(clean(data.testDesc), COMMA) = 2
  /\ Count(out.adSet, DASH) = 2

(***************************************************************************)
(* C4: the ad-level string of either generator never contains a comma      *)
(* followed by U+0020, also for runs such as ",, " and ", , ".             *)
(***************************************************************************)
C4_AdLevelHasNoCommaSpace ==
  out.mode # "none" => ~HasPair(out.adLevel, COMMA, SPACE)

\* The run ", , a" in a field of the video ad-level string.
C4_Witness ==
  /\ out.mode = "video"
  /\ data.hookDesc = <<COMMA, SPACE, COMMA, SPACE, 97>>
  /\ out.adLevel = <<DASH, DASH, 97>>

(***************************************************************************)
(* C5: skip-blank law of textJoin and of textJoinWith under each            *)
(* normalizer.  A list of empty or whitespace-only values joins to the     *)
(* empty string; with one position replaced by a value that normalizes to  *)
(* a non-empty string the join is that normalized value, no delimiter.     *)
(***************************************************************************)
WhitespaceOnly(v) == \A i \in DOMAIN v : v[i] \in WhiteSpace

\* The normalizer an operation of res applies.
Normalized(op, v) ==
  IF op = "textJoinWith:cleanAdSetVideo" THEN cleanAdSetVideo(v)
  ELSE IF op = "textJoinWith:cleanAdSetStatic" THEN cleanAdSetStatic(v)
  ELSE clean(v)

JoinOps ==
  { "textJoin", "textJoinWith:clean", "textJoinWith:cleanAdSetVideo",
    "textJoinWith:cleanAdSetStatic" }

\* C5: a join of blank values is empty, and with a single solid value it is
\* that value as normalized.
C5_JoinSkipsBlanks ==
  res.op \in JoinOps =>
    LET solid == {i \in DOMAIN parts : ~WhitespaceOnly(parts[i])}
    IN  /\ solid = {} => res.val = <<>>
        /\ \A i \in solid :
             solid = {i} /\ Normalized(res.op, parts[i]) # <<>> =>
               res.val = Normalized(res.op, parts[i])

\* A value between two blank ones, joined under the static normalizer.
C5_Witness ==
  /\ res.op = "textJoinWith:cleanAdSetStatic"
  /\ Len(parts) = 3
  /\ parts[1] = <<SPACE, 9, 12288>> /\ parts[2] = <<97, COMMA>> /\ parts[3] = <<>>
  /\ res.val = <<97, DASH>>

(***************************************************************************)
(* C6: without underscores in the field values, neither string of either   *)
(* generator starts or ends with "_" or contains "__", and it holds one    *)
(* underscore fewer than there are non-empty contributions.                *)
(***************************************************************************)
NoUnderscores(d) == \A f \in StringFields : ~Contains(d[f], UNDERSCORE)

\* 1 if one of the named fields contributes, 0 otherwise.
Some(d, fields) == IF \E f \in fields : ~Blank(d[f]) THEN 1 ELSE 0

Each(d, fields) == Cardinality({f \in fields : ~Blank(d[f])})

Flag(d) == IF d.ncon THEN 1 ELSE 0

SharedAdSetFields ==
  { "account", "productGeo", "trial", "conceptId", "assetId", "focus", "theme",
    "shortConceptDesc", "title", "intro", "testVariable", "testDesc", "age",
    "ethnicity", "ratio", "style", "graphic", "productCode", "projectCode" }

SharedAdLevelFields ==
  { "account", "productGeo", "trial", "conceptId", "assetId", "focus", "theme",
    "shortConceptDesc", "title", "intro", "age", "ethnicity", "ratio", "style",
    "graphic", "productCode", "adTextCode" }

\* Contributions to the ad-set string.
AdSetContributions(d, mode) ==
  Each(d, SharedAdSetFields) + Flag(d)
    + Some(d, {IF mode = "video" THEN "seq" ELSE "carouselCode"})

\* Contributions to the ad-level string: the plain fields, the four
\* segments, the token and the project code with its variant.
AdLevelContributions(d, mode) ==
  Each(d, SharedAdLevelFields) + Flag(d)
    + Some(d, {IF mode = "video" THEN "seq" ELSE "carouselCode"})
    + Some(d, {IF mode = "video" THEN "seqDesc" ELSE "carouselDesc"})
    + Some(d, {"hookTheme", IF mode = "video" THEN "hookDesc" ELSE "titleDesc"})
    + Some(d, {"visualTheme", "visualObject"})
    + Some(d, {IF mode = "video" THEN "sound" ELSE "visualIdentifier"})
    + Some(d, {"projectCode", "variant"})

WellDelimited(s, n) ==
  /\ s # <<>> => s[1] # UNDERSCORE /\ s[Len(s)] # UNDERSCORE
  /\ ~HasPair(s, UNDERSCORE, UNDERSCORE)
  /\ Count(s, UNDERSCORE) = IF n = 0 THEN 0 ELSE n - 1

\* C6: both strings are well delimited for their number of contributions.
C6_NoStrayDelimiters ==
  out.mode # "none" /\ NoUnderscores(data) =>
    /\ WellDelimited(out.adSet, AdSetContributions(data, out.mode))
    /\ WellDelimited(out.adLevel, AdLevelContributions(data, out.mode))

\* Both halves of a segment filled and the flag on, the first slots empty.
C6_Witness ==
  /\ out.mode = "video"
  /\ ~Blank(data.hookTheme) /\ ~Blank(data.hookDesc) /\ data.ncon
  /\ Blank(data.account)
  /\ Count(out.adLevel, UNDERSCORE) = 1
  /\ out.adSet = NCON

(***************************************************************************)
(* C7: clean is idempotent.                                                *)
(***************************************************************************)
C7_CleanIsIdempotent == res.op = "clean" => clean(res.val) = res.val

\* A value whose removed characters shield whitespace at both ends.
C7_Witness ==
  /\ res.op = "clean"
  /\ text = <<8203, SPACE, 97, 8288>>
  /\ res.val = <<97>>

(***************************************************************************)
(* C8: clean(s) is s without U+00A0, U+200B, U+200D and U+2060, then       *)
(* trimmed: none of the four remains, the result neither begins nor ends   *)
(* with whitespace, everything else is kept in order, and whitespace that  *)
(* a removed character shielded at an end is trimmed as well.              *)
(***************************************************************************)
\* The subset of WhiteSpace below U+0080.
AsciiWhiteSpace == {9, 10, 11, 12, 13, 32}

\* r is s without the four characters and without a leading and a trailing
\* run of the characters of ws: a window lo..hi of s holds r once the four
\* characters are dropped, everything outside the window is droppable, and
\* r has no character of ws at either end.
IsRemovedThenTrimmed(r, s, ws) ==
  /\ \A i \in DOMAIN r : r[i] \notin CLEAN_RE
  /\ r # <<>> => r[1] \notin ws /\ r[Len(r)] \notin ws
  /\ \E lo \in 1 .. Len(s) + 1, hi \in 0 .. Len(s) :
       /\ r = SelectSeq(SubSeq(s, lo, hi), LAMBDA c : c \notin CLEAN_RE)
       /\ \A i \in DOMAIN s : i < lo \/ i > hi => s[i] \in ws \cup CLEAN_RE

\* C8 as stated: the trimming is of ASCII whitespace.
C8_AsStated ==
  res.op = "clean" => IsRemovedThenTrimmed(res.val, text, AsciiWhiteSpace)

\* C8 as amended: the trimming is that of String.prototype.trim, of every
\* character of WhiteSpace.
C8_CleanRemovesThenTrims ==
  res.op = "clean" => IsRemovedThenTrimmed(res.val, text, WhiteSpace)

\* A space shielded by a zero-width joiner, an inner space kept.
C8_Witness ==
  /\ res.op = "clean"
  /\ text = <<97, SPACE, 97, SPACE, 8205>>
  /\ res.val = <<97, SPACE, 97>>

(***************************************************************************)
(* C9: the video ad-set string is the skip-blank "_" join, under the video *)
(* ad-set normalizer, of the 21 values in the stated order; the record     *)
(* "US", "USA", "T1" gives "US_USA_T1".                                    *)
(***************************************************************************)
\* normalize, then delete every U+0020
VideoAdSetNormalize(v) == SelectSeq(clean(v), LAMBDA c : c # SPACE)

\* C9: the ad-set string of the video generator is the fold over the 21 slots.
C9_VideoAdSetIsOrderedJoin ==
  out.mode = "video" =>
    /\ out.adSet =
         SkipBlankFold(
           [i \in DOMAIN VideoAdSetOrder |->
              VideoAdSetNormalize(Slot(data, VideoAdSetOrder[i]))],
           <<UNDERSCORE>>, <<>>)
    /\ data = ScenarioUS => out.adSet = <<85, 83, 95, 85, 83, 65, 95, 84, 49>>

\* The worked example, generated.
C9_Witness ==
  /\ out.mode = "video"
  /\ data = ScenarioUS
  /\ out.adSet = <<85, 83, 95, 85, 83, 65, 95, 84, 49>>

(***************************************************************************)
(* C10: fields that only the ad-level string uses do not reach the ad-set  *)
(* string.  Two records that differ only in such fields get the same       *)
(* ad-set string, from the video generator and from the static one.        *)
(***************************************************************************)
VideoAdLevelOnly ==
  { "sound", "variant", "adTextCode", "seqDesc", "hookTheme", "hookDesc",
    "visualTheme", "visualObject" }

StaticAdLevelOnly ==
  { "variant", "adTextCode", "carouselDesc", "hookTheme", "titleDesc",
    "visualTheme", "visualObject", "visualIdentifier" }

DifferOnlyIn(fields) ==
  /\ data.ncon = alt.ncon
  /\ \A f \in StringFields \ fields : data[f] = alt[f]

\* C10: records that differ only in ad-level fields have one ad-set string.
C10_AdLevelFieldsDoNotReachAdSet ==
  /\ out.mode = "video" /\ DifferOnlyIn(VideoAdLevelOnly) => out.adSet = outAlt.adSet
  /\ out.mode = "static" /\ DifferOnlyIn(StaticAdLevelOnly) => out.adSet = outAlt.adSet

\* Two records that differ in sound and variant: other ad-level strings,
\* one ad-set string.
C10_Witness ==
  /\ out.mode = "video"
  /\ data.sound # alt.sound /\ data.variant # alt.variant
  /\ DifferOnlyIn(VideoAdLevelOnly)
  /\ out.adLevel # outAlt.adLevel
  /\ out.adSet # <<>> /\ out.adSet = outAlt.adSet

(***************************************************************************)
(* C11: the T-segment and the V-segment.  With p the normalized primary    *)
(* value and q the normalized secondary one, a segment is the tag, p, a    *)
(* dash and q when both are non-empty, the tag and p when only p is, q     *)
(* alone when only q is, and empty when neither is.  The segments are the  *)
(* whole ad-level string of a record that fills nothing else; "Fear",      *)
(* "Urgency" and "ProductShot" give "T-Fear-Urgency" and "ProductShot".    *)
(***************************************************************************)
Segment(tag, primary, secondary) ==
  LET p == clean(primary)
      q == clean(secondary)
  IN  IF p # <<>> /\ q # <<>> THEN tag \o p \o <<DASH>> \o q
      ELSE IF p # <<>> THEN tag \o p
      ELSE IF q # <<>> THEN q
      ELSE <<>>

\* Nothing but the fields of F contributes to the strings of d.
OnlyFilled(d, F) == ~d.ncon /\ \A f \in StringFields \ F : Blank(d[f])

\* The two segments, joined as the ad-level list joins its entries.
TwoSegments(t, v) == IF t = <<>> THEN v ELSE IF v = <<>> THEN t ELSE t \o <<UNDERSCORE>> \o v

VideoSegmentFields == {"hookTheme", "hookDesc", "visualTheme", "visualObject"}

StaticSegmentFields == {"hookTheme", "titleDesc", "visualTheme", "visualObject"}

TFearUrgencyProductShot == PrefixT \o Fear \o <<DASH>> \o Urgency \o <<UNDERSCORE>> \o ProductShot

\* C11: the ad-level string of a record that fills only segment fields is
\* the T-segment and the V-segment composed from their normalized halves.
C11_SegmentsCompose ==
  /\ out.mode = "video" /\ OnlyFilled(data, VideoSegmentFields) =>
        out.adLevel =
          substituteCommaSpaceToDash(
            TwoSegments(Segment(PrefixT, data.hookTheme, data.hookDesc),
                        Segment(PrefixV, data.visualTheme, data.visualObject)))
  /\ out.mode = "static" /\ OnlyFilled(data, StaticSegmentFields) =>
        out.adLevel =
          substituteCommaSpaceToDash(
            TwoSegments(Segment(PrefixT, data.hookTheme, data.titleDesc),
                        Segment(PrefixV, data.visualTheme, data.visualObject)))
  /\ out.mode = "video" /\ data = ScenarioFear => out.adLevel = TFearUrgencyProductShot

\* The worked example, generated: a tagged T-segment with both halves and
\* an untagged V-segment.
C11_Witness ==
  /\ out.mode = "video"
  /\ data = ScenarioFear
  /\ out.adLevel = TFearUrgencyProductShot

(***************************************************************************)
(* C12: the project code and the variant.  The ad-level string receives    *)
(* the normalized project code immediately followed by the normalized      *)
(* variant when the variant is non-empty, and the normalized project code  *)
(* alone otherwise; a variant of white space or zero-width characters      *)
(* counts as empty, and "087.01-001" with "a" gives "087.01-001a".         *)
(***************************************************************************)
CodeFields == {"projectCode", "variant"}

CodeThenVariant(d) ==
  IF d.variant # <<>> THEN clean(d.projectCode) \o clean(d.variant)
  ELSE clean(d.projectCode)

\* C12: the ad-level string of a record that fills only the project code
\* and the variant is the code followed by the variant.
C12_CodeThenVariant ==
  out.mode # "none" /\ OnlyFilled(data, CodeFields) =>
    /\ out.adLevel = substituteCommaSpaceToDash(CodeThenVariant(data))
    /\ Blank(data.variant) =>
          out.adLevel = substituteCommaSpaceToDash(clean(data.projectCode))
    /\ data = ScenarioVariant => out.adLevel = ProjectCode087 \o <<97>>

\* The worked example, generated by the static generator.
C12_Witness ==
  /\ out.mode = "static"
  /\ data = ScenarioVariant
  /\ out.adLevel = ProjectCode087 \o <<97>>

\* A variant of one zero-width space, which is not the empty string, adds
\* nothing to the project code.
C12_WitnessBlankVariant ==
  /\ out.mode = "video"
  /\ data.projectCode = ProjectCode087
  /\ data.variant = <<8203>>
  /\ out.adLevel = ProjectCode087

(***************************************************************************)
(* C13: the last pass over the ad-level string.  The ad-level string is    *)
(* the skip-blank "_" join of the ordered ad-level list, in which every    *)
(* comma followed by U+0020 has become one dash and every other character, *)
(* a comma followed by anything else included, is as it was.               *)
(***************************************************************************)
\* Every comma followed by one of the code units of `after` becomes a dash;
\* matches are taken left to right and do not overlap.
RECURSIVE DashForCommaThen(_, _)
DashForCommaThen(s, after) ==
  IF Len(s) < 2 THEN s
  ELSE IF s[1] = COMMA /\ s[2] \in after
       THEN <<DASH>> \o DashForCommaThen(SubSeq(s, 3, Len(s)), after)
       ELSE <<s[1]>> \o DashForCommaThen(Tail(s), after)

VideoLeading ==
  << "account", "productGeo", "trial", "conceptId", "assetId", "focus", "theme",
     "shortConceptDesc", "seq", "title", "intro" >>

StaticLeading ==
  << "account", "productGeo", "trial", "conceptId", "assetId", "focus", "theme",
     "shortConceptDesc", "carouselCode", "title", "intro" >>

AdLevelTrailing == << "ncon", "age", "ethnicity", "ratio", "style", "graphic", "productCode" >>

Normalized11(d, names) == [i \in DOMAIN names |-> clean(Slot(d, names[i]))]

\* The ordered ad-level list of the video generator, every entry normalized.
VideoAdLevelOrder(d) ==
  Normalized11(d, VideoLeading)
    \o << Segment(PrefixS, d.seqDesc, <<>>),
          Segment(PrefixT, d.hookTheme, d.hookDesc),
          Segment(PrefixV, d.visualTheme, d.visualObject),
          Segment(PrefixA, d.sound, <<>>) >>
    \o Normalized11(d, AdLevelTrailing)
    \o << CodeThenVariant(d), clean(d.adTextCode) >>

\* The ordered ad-level list of the static generator, every entry normalized.
StaticAdLevelOrder(d) ==
  Normalized11(d, StaticLeading)
    \o << Segment(PrefixS, d.carouselDesc, <<>>),
          Segment(PrefixT, d.hookTheme, d.titleDesc),
          Segment(PrefixV, d.visualTheme, d.visualObject),
          Segment(PrefixA, d.visualIdentifier, <<>>) >>
    \o Normalized11(d, AdLevelTrailing)
    \o << CodeThenVariant(d), clean(d.adTextCode) >>

AdLevelJoined(d, mode) ==
  SkipBlankFold(IF mode = "video" THEN VideoAdLevelOrder(d) ELSE StaticAdLevelOrder(d),
                <<UNDERSCORE>>, <<>>)

\* C13: the ad-level string is the joined list with a dash for every comma
\* followed by U+0020, and nothing else changed.
C13_OnlyCommaSpaceChanges ==
  out.mode # "none" =>
    out.adLevel = DashForCommaThen(AdLevelJoined(data, out.mode), {SPACE})

\* What the last pass does: a dash for every comma followed by any white
\* space character.
C13_CommaWhiteSpaceChanges ==
  out.mode # "none" =>
    out.adLevel = DashForCommaThen(AdLevelJoined(data, out.mode), WhiteSpace)

\* A comma followed by a tab inside a value has become a dash.
C13_Witness ==
  /\ out.mode = "video"
  /\ data.hookDesc = <<97, COMMA, 9, 98>>
  /\ out.adLevel = <<97, DASH, 98>>

(***************************************************************************)
(* C14: the empty slots N..Q and Z of the static ad-set list change        *)
(* nothing.  The static ad-set string is the skip-blank "_" join, under    *)
(* the static ad-set normalizer, of the 21 values that remain when the     *)
(* placeholders are left out.                                              *)
(***************************************************************************)
\* normalize, then a dash for every comma, then delete every U+0020
StaticAdSetNormalize(v) ==
  LET n == clean(v)
      dashed == [i \in DOMAIN n |-> IF n[i] = COMMA THEN DASH ELSE n[i]]
  IN  SelectSeq(dashed, LAMBDA c : c # SPACE)

\* C14: the ad-set string of the static generator is the fold over the 21
\* slots that are not placeholders.
C14_PlaceholdersAreNoOps ==
  out.mode = "static" =>
    out.adSet =
      SkipBlankFold(
        [i \in DOMAIN StaticAdSetOrder |->
           StaticAdSetNormalize(Slot(data, StaticAdSetOrder[i]))],
        <<UNDERSCORE>>, <<>>)

\* testDesc and the ncon token stand on either side of the slots N..Q: one
\* underscore separates them.
C14_Witness ==
  /\ out.mode = "static"
  /\ data.ncon
  /\ out.adSet = <<Mark("testDesc"), UNDERSCORE>> \o NCON

(***************************************************************************)
(* C15: no error path.  On a record in which string fields are missing,    *)
(* null or not strings, either generator returns two strings, the same     *)
(* two it returns when each of those fields is the empty string; the       *)
(* variant is among them, whatever its truthiness.                         *)
(***************************************************************************)
\* d with the empty string in place of every value that is not a string.
Coerced(d) ==
  [f \in DOMAIN d |-> IF f = "ncon" THEN d.ncon
                      ELSE IF IsString(d[f]) THEN d[f] ELSE <<>>]

NonStringFields(d) == {f \in StringFields : ~IsString(d[f])}

\* C15: the pair of a record and the pair of its coerced record are equal
\* pairs of strings.
C15_NonStringsCountAsEmpty ==
  out.mode # "none" /\ alt = Coerced(data) =>
    /\ IsString(out.adSet) /\ IsString(out.adLevel)
    /\ out.adSet = outAlt.adSet
    /\ out.adLevel = outAlt.adLevel

\* A truthy non-string variant and a missing account, next to fields that
\* are filled: the strings are those of the record with both empty.
C15_Witness ==
  /\ out.mode = "video"
  /\ NonStringFields(data) = {"account", "variant"}
  /\ data.variant = One
  /\ alt = Coerced(data)
  /\ out.adLevel # <<>> /\ IsString(out.adLevel)
  /\ out.adLevel = outAlt.adLevel /\ out.adSet = outAlt.adSet

(***************************************************************************)
(* C16: the generators are independent of the other mode's fields.  Two    *)
(* records that differ only in seq, seqDesc, hookDesc or sound get the     *)
(* same two strings from the static generator; two records that differ     *)
(* only in carouselCode, carouselDesc, titleDesc or visualIdentifier get   *)
(* the same two strings from the video generator.                          *)
(***************************************************************************)
VideoOnlyFields == {"seq", "seqDesc", "hookDesc", "sound"}

StaticOnlyFields == {"carouselCode", "carouselDesc", "titleDesc", "visualIdentifier"}

SameOutputs == out.adSet = outAlt.adSet /\ out.adLevel = outAlt.adLevel

\* C16: records that differ only in fields of the other mode have the same
\* ad-set string and the same ad-level string.
C16_OtherModeFieldsAreNotRead ==
  /\ out.mode = "static" /\ DifferOnlyIn(VideoOnlyFields) => SameOutputs
  /\ out.mode = "video" /\ DifferOnlyIn(StaticOnlyFields) => SameOutputs

\* Two filled records that differ in seq and hookDesc: the static generator
\* gives both the same strings, the video generator would not.
C16_Witness ==
  /\ out.mode = "static"
  /\ data.seq # alt.seq /\ data.hookDesc # alt.hookDesc
  /\ DifferOnlyIn(VideoOnlyFields)
  /\ out.adSet # <<>> /\ out.adLevel # <<>>
  /\ SameOutputs
  /\ generateVideoOutputs(data) # generateVideoOutputs(alt)

(***************************************************************************)
(* C17: the copy indicator of a CopyRow.  A click while the value is empty *)
(* changes nothing: no text is written, copied stays as it is, no timer is *)
(* set.  A click with a value writes that value, sets copied and sets one  *)
(* timer.  Whenever copied is set a timer is pending, so that copied is    *)
(* always reset, and stays reset once the clicks have stopped (in a        *)
(* behaviour of at most MaxClicks clicks they do stop).                    *)
(***************************************************************************)
Clicked == clicks' # clicks

ClickOnEmptyChangesNothing ==
  Clicked /\ value = <<>> => UNCHANGED <<copied, clipboard, timers, value>>

ClickCopies ==
  Clicked /\ value # <<>> =>
    /\ clipboard' = Append(clipboard, value)
    /\ copied' = TRUE
    /\ timers' = timers + 1

C17_CopyIndicator ==
  /\ [][ClickOnEmptyChangesNothing]_vars
  /\ [][ClickCopies]_vars
  /\ [](copied => timers >= 1)
  /\ (copied ~> ~copied)
  /\ <>[](~copied)

\* Two clicks, one of them on an empty value, have written one text, and
\* the indicator has been reset by the only timer.
C17_Witness ==
  /\ clicks = 2
  /\ clipboard = << <<85, 83>> >>
  /\ ~copied
  /\ timers = 0

====
